---- MODULE Spec2Model ----
(***************************************************************************)
(* State-machine model of LangGraphSearchEngine                            *)
(* (src/lib/langgraph-search-engine.ts): the state graph built by          *)
(* buildGraph(), the reducers of SearchStateAnnotation and the outer       *)
(* search() call that invokes the graph with recursionLimit 35.            *)
(*                                                                         *)
(* Abstractions of the data:                                               *)
(*   - a URL is a number in URLs;                                          *)
(*   - a document's content is represented by its length (the code only    *)
(*     tests truthiness and compares the length to MIN_CONTENT_LENGTH);    *)
(*   - a summary is 0 (unset), 1 (an extracted fact) or 2 (a sentence      *)
(*     saying that no specific information was found);                     *)
(*   - a confidence is a number of tenths (3 stands for 0.3);              *)
(*   - of the emitted events, the final-result and error events are kept   *)
(*     in order (events); for the others it is recorded only whether one   *)
(*     was emitted after a terminal event (emittedAfterTerminal), and the  *)
(*     chunks of the content-chunk events are kept joined (streamed);      *)
(*   - a text (answer, chunk) is a string, Undef when the field is unset;  *)
(*   - the collaborators (model and provider) answer nondeterministically. *)
(*     In a "free" run every call may fail or succeed with any outcome of  *)
(*     the bounded sets below. In a "long" run the decomposition returns   *)
(*     LongSubQueries sub-questions that carry a version number (all of    *)
(*     them, or all but the first), no                                     *)
(*     model call fails and the coverage check gives every question the    *)
(*     same confidence, or that confidence to all but the first and 0.5    *)
(*     to the first; provider calls stay free. The long runs are the       *)
(*     ones that use up the step budget without any model failure. A       *)
(*     "wide" run is as calm as a long one, has one sub-question, and its  *)
(*     provider returns documents of WideUrls different URLs. A "stream"   *)
(*     run is a wide run with the URLs of a free one in which the answer   *)
(*     stream of the synthesizer may fail after any number of chunks and   *)
(*     the non-streaming call made then may fail too.                      *)
(*   - scrapedSources, an append-only list in the code, is kept folded     *)
(*     into the Map its only reader builds from it (analyze, line 597):    *)
(*     the last version of each URL, in order of first appearance.         *)
(***************************************************************************)
EXTENDS Integers, Sequences, FiniteSets, TLC

\* ---------------------------------------------------------------- bounds
NumUrls == 1
MaxBatch == 2
MaxSubQueries == 1
MaxAltLines == 1
LongSubQueries == 10
WideUrls == 2
MaxChunks == 2
MaxQueryLen == 6
MaxContentLen == 2

\* ------------------------------------------------------ program constants
MAX_SEARCH_QUERIES == 4
MAX_SOURCES_TO_SCRAPE == 6
MIN_CONTENT_LENGTH == 100
MAX_RETRIES == 2
MAX_SEARCH_ATTEMPTS == 3
MIN_ANSWER_CONFIDENCE == 3
PARTIAL_CONFIDENCE == 3
RECURSION_LIMIT == 35

Worlds == {"free", "long", "wide", "stream"}
ContentLens == {0, MIN_CONTENT_LENGTH - 1, MIN_CONTENT_LENGTH + 1}
NoResult == -1
LlmThrow == -1

VARIABLES
  world,             \* which behaviours the collaborators show in this run
  pc,                \* position of search(): "invoke" | "done"
  node,              \* next graph node to run, "END" when the graph has ended
  steps,             \* graph supersteps (node executions) done by this invoke
  phase, understanding, searchQueries, currentSearchIndex,
  sources, scrapedSources, finalAnswer, followUpQuestions,
  subQueries, hasSubQueries, searchAttempt,
  error, errorType, maxRetries, retryCount,
  events,            \* the final-result and error events, in emission order
  terminalEmitted,   \* a final-result or a terminal error event was emitted
  emittedAfterTerminal, \* some event was emitted after that one
  planRetries,       \* number of analyze -> plan transitions
  errorRetries,      \* number of handleError -> understand transitions
  mergedUrls,        \* every URL ever given to the sources reducer
  dupMerged,         \* a URL was given to the sources reducer more than once
  queryFailed,       \* some provider search call failed in this run
  failedCall,        \* node or helper whose model or provider call failed
                     \* in the last step, "none" when there is none
  inFlight,          \* per-document tasks of the batch the search node is
                     \* waiting for (lines 410-441), NoBatch outside the wait
  fetchFailed,       \* URLs whose direct fetch failed in the scraping pass
                     \* that has just run, empty once analyze has run
  streamed,          \* the chunks of all content-chunk events of the run,
                     \* joined in emission order (as chat.tsx joins them)
  scoring,           \* a call of scoreContent looked at on its own: its
                     \* arguments and, once it has returned, its result
  decompositions     \* number of calls of extractSubQueries made in the run

vars == <<world, pc, node, steps, phase, understanding, searchQueries,
          currentSearchIndex, sources, scrapedSources, finalAnswer, followUpQuestions,
          subQueries, hasSubQueries, searchAttempt, error, errorType,
          maxRetries, retryCount, events, terminalEmitted,
          emittedAfterTerminal, planRetries, errorRetries, mergedUrls,
          dupMerged, queryFailed, failedCall, inFlight, fetchFailed,
          streamed, scoring, decompositions>>

\* the fields of SearchState with the history kept about them
stateVars == <<phase, understanding, searchQueries, currentSearchIndex,
               sources, scrapedSources, finalAnswer, followUpQuestions, subQueries,
               hasSubQueries, searchAttempt, error, errorType, maxRetries,
               retryCount, planRetries, errorRetries, mergedUrls, dupMerged,
               queryFailed, failedCall, fetchFailed, decompositions>>

\* no call of scoreContent is looked at
NoScoring == [content |-> <<>>, query |-> <<>>, score |-> -1]

\* no batch is being processed
NoBatch == [active |-> FALSE, tasks |-> <<>>]

\* ---------------------------------------------------------------- helpers
Min(a, b) == IF a < b THEN a ELSE b

UrlsOf(s) == {s[i].url : i \in 1..Len(s)}

SeqsUpTo(S, n) == UNION {[1..k -> S] : k \in 0..n}

\* values() of the Map built by set(s.url, s) for each s of list in order: a
\* URL keeps the position of its first entry and the value of its last one
MapValues(list) ==
  LET IsFirst(i) == \A j \in 1..(i - 1) : list[j].url # list[i].url
      firsts == SelectSeq([i \in 1..Len(list) |-> i], IsFirst)
      Last(i) == CHOOSE j \in 1..Len(list) :
                   /\ list[j].url = list[i].url
                   /\ \A k \in (j + 1)..Len(list) : list[k].url # list[i].url
  IN [k \in 1..Len(firsts) |-> list[Last(firsts[k])]]

\* the update repeats a URL of the existing list or one of its own
HasRepeat(existing, update) ==
  \/ \E i \in 1..Len(update) : update[i].url \in UrlsOf(existing)
  \/ \E i, j \in 1..Len(update) : i # j /\ update[i].url = update[j].url

\* reducer of SearchStateAnnotation.sources (lines 82-93)
SourcesReducerAppend(existing, update) == existing \o update

SourcesReducerReplace(existing, update) == MapValues(update)

SourcesReducerDedupUpdate(existing, update) ==
  existing \o MapValues(update)

SourcesReducer(existing, update) == MapValues(existing \o update)

\* reducer of SearchStateAnnotation.scrapedSources: appends; the list is kept
\* folded by URL (last version wins), which is all the analyze node reads
ScrapedSourcesReducer(existing, update) == MapValues(existing \o update)

\* reducer (x, y) => y ?? x of the scalar fields; Undef stands for undefined
Undef == "undefined"
Keep(x, y) == IF y = Undef THEN x ELSE y

\* ----------------------------------------------------------------- events
\* payload of the events that are not final-result events
NoData == [content |-> Undef, sources |-> <<>>, followUpQuestions |-> Undef]

\* url is 0 for an event without a url, index and total are 0 for an event
\* that is not a searching event
Ev(type) ==
  [type |-> type, errorType |-> "none", terminal |-> FALSE, data |-> NoData,
   url |-> 0, index |-> 0, total |-> 0]
ErrorEvNeverLast(kind, isTerminal) == [Ev("error") EXCEPT !.errorType = kind]

ErrorEv(kind, isTerminal) ==
  [Ev("error") EXCEPT !.errorType = kind, !.terminal = isTerminal]
FinalEv(content, srcs, followUps) ==
  [Ev("final-result") EXCEPT
     !.terminal = TRUE,
     !.data = [content |-> content, sources |-> srcs,
               followUpQuestions |-> followUps]]
\* source-processing and source-complete events (lines 413-418, 433-437)
DocEv(type, u) == [Ev(type) EXCEPT !.url = u]
\* the searching event of a query (lines 378-383)
SearchingEv(index, total) ==
  [Ev("searching") EXCEPT !.index = index, !.total = total]

\* a content-chunk event (lines 731-735); its chunk is kept in data.content
ChunkEv(chunk) == [Ev("content-chunk") EXCEPT !.data.content = chunk]

RECURSIVE Join(_)
\* list.join('') for a list of texts
Join(list) == IF list = <<>> THEN "" ELSE Head(list) \o Join(Tail(list))

\* the text that the content-chunk events of a list add to the streamed text
ChunkText(list) ==
  LET IsChunk(e) == e.type = "content-chunk"
      cs == SelectSeq(list, IsChunk)
  IN Join([i \in 1..Len(cs) |-> cs[i].data.content])

IsRecorded(e) == e.type \in {"final-result", "error"}
Strip(e) == [type |-> e.type, errorType |-> e.errorType, data |-> e.data]

RECURSIVE Recorded(_)
Recorded(list) ==
  IF list = <<>> THEN <<>>
  ELSE (IF IsRecorded(Head(list)) THEN <<Strip(Head(list))>> ELSE <<>>)
       \o Recorded(Tail(list))

\* the calls eventCallback(e) made by one node, in order
Emit(list) ==
  /\ events' = events \o Recorded(list)
  /\ streamed' = streamed \o ChunkText(list)
  /\ terminalEmitted' =
       (terminalEmitted \/ \E i \in 1..Len(list) : list[i].terminal)
  /\ emittedAfterTerminal' =
       \/ emittedAfterTerminal
       \/ (terminalEmitted /\ list # <<>>)
       \/ \E i \in 1..Len(list) : list[i].terminal /\ i < Len(list)

\* ------------------------------------------------------------ sub-queries
\* searchQuery is kept as a token: kind of the query and the sub-question
\* (index) it was derived from, 0 when it is a line written by the model.
Query(kind, of) == [kind |-> kind, of |-> of]

\* answer is Undef or a token for the answer text, sources the set of the
\* supporting URLs
\* question is "extracted" for a question written by the model and
\* "request" for the user's request verbatim
NewSubQuery(i, v) ==
  [answered |-> FALSE, confidence |-> 0, searchQuery |-> Query("orig", i),
   version |-> v, answer |-> Undef, sources |-> {},
   question |-> "extracted"]

\* the fallback of extractSubQueries (lines 1141-1144) as the plan node
\* stores it: question and search query are the request itself
FallbackSubQuery(v) ==
  [NewSubQuery(1, v) EXCEPT !.question = "request",
                            !.searchQuery = Query("request", 0)]

\* lines 277-290 with extractSubQueries (lines 1138-1144): parsed is FALSE
\* when the model call fails or its answer is no JSON, ext is the parsed
\* array, v says whether the request carries a version number
ExtractedSubQueriesNoFallback(parsed, ext, v) ==
  IF parsed THEN [i \in 1..Len(ext) |-> NewSubQuery(i, ext[i])] ELSE <<>>

ExtractedSubQueries(parsed, ext, v) ==
  IF parsed THEN [i \in 1..Len(ext) |-> NewSubQuery(i, ext[i])]
  ELSE <<FallbackSubQuery(v)>>

\* filter of the plan node and of generateAlternativeSearchQueries
IsUnanswered(sq) == ~sq.answered \/ sq.confidence < MIN_ANSWER_CONFIDENCE

RECURSIVE FilterIdx(_, _, _)
\* indices i >= from of sqs whose entry satisfies the flag function keep
FilterIdx(keep, from, n) ==
  IF from > n THEN <<>>
  ELSE (IF keep[from] THEN <<from>> ELSE <<>>) \o FilterIdx(keep, from + 1, n)

UnansweredIdx(sqs) ==
  FilterIdx([i \in 1..Len(sqs) |-> IsUnanswered(sqs[i])], 1, Len(sqs))

ProblematicIdx(sqs) ==
  FilterIdx([i \in 1..Len(sqs) |-> IsUnanswered(sqs[i]) /\ sqs[i].version],
            1, Len(sqs))

Slice(s, n) == SubSeq(s, 1, Min(Len(s), n))

\* generateAlternativeSearchQueries (lines 1150-1220): llm is LlmThrow or the
\* number of usable lines of the model's answer
GenerateAlternativeSearchQueries(sqs, previousAttempts, llm) ==
  LET un == UnansweredIdx(sqs)
      prob == ProblematicIdx(sqs)
  IN IF previousAttempts >= 2 /\ prob # <<>>
     THEN [k \in 1..Len(prob) |-> Query("base", prob[k])]
     ELSE IF llm = LlmThrow
     THEN Slice([k \in 1..Len(un) |-> Query("news", un[k])],
                MAX_SEARCH_QUERIES)
     ELSE Slice([k \in 1..llm |-> Query("alt", 0)], MAX_SEARCH_QUERIES)

\* plan node, lines 309-318: the k-th unanswered sub-question gets the k-th
\* alternative query, while there are alternatives left
AssignAlternativesByPosition(sqs, queries) ==
  [i \in 1..Len(sqs) |->
     IF i <= Len(queries)
     THEN [sqs[i] EXCEPT !.searchQuery = queries[i]]
     ELSE sqs[i]]

AssignAlternatives(sqs, queries) ==
  LET un == UnansweredIdx(sqs)
      pos(i) == CHOOSE k \in 1..Len(un) : un[k] = i
  IN [i \in 1..Len(sqs) |->
        IF IsUnanswered(sqs[i]) /\ pos(i) <= Len(queries)
        THEN [sqs[i] EXCEPT !.searchQuery = queries[pos(i)]]
        ELSE sqs[i]]

\* checkAnswersInSources, lines 1073-1086: results[i] is the confidence of the
\* model's judgment for question i, NoResult when it has none
\* lines 1075-1085 for a judgment found for the question: result has the
\* fields answered (the flag the model reports), confidence, answer, sources
MergeResultTrustsModel(sq, result) ==
  IF result.confidence > sq.confidence
  THEN [sq EXCEPT !.answered = result.answered,
                  !.answer = result.answer,
                  !.confidence = result.confidence,
                  !.sources = sq.sources \cup result.sources]
  ELSE sq

\* the same with a threshold of the answered flag one tenth higher
MergeResultAnsweredAtFour(sq, result) ==
  IF result.confidence > sq.confidence
  THEN [sq EXCEPT !.answered =
                    (result.confidence >= MIN_ANSWER_CONFIDENCE + 1),
                  !.answer = result.answer,
                  !.confidence = result.confidence,
                  !.sources = sq.sources \cup result.sources]
  ELSE sq

\* the same without line 1078
MergeResultKeepsFlag(sq, result) ==
  IF result.confidence > sq.confidence
  THEN [sq EXCEPT !.answer = result.answer,
                  !.confidence = result.confidence,
                  !.sources = sq.sources \cup result.sources]
  ELSE sq

MergeResult(sq, result) ==
  IF result.confidence > sq.confidence
  THEN [sq EXCEPT !.answered = (result.confidence >= MIN_ANSWER_CONFIDENCE),
                  !.answer = result.answer,
                  !.confidence = result.confidence,
                  !.sources = sq.sources \cup result.sources]
  ELSE sq

\* the judgment of confidence r as the runs of the model carry it: the text
\* and the reported flag are always the same and no URL is listed
Judgment(r) ==
  [answered |-> TRUE, confidence |-> r, answer |-> "text", sources |-> {}]

MergeJudgmentAlways(sq, r) ==
  IF r # NoResult
  THEN [sq EXCEPT !.answered = (r >= MIN_ANSWER_CONFIDENCE), !.confidence = r,
                  !.answer = "text"]
  ELSE sq

MergeJudgment(sq, r) ==
  IF r # NoResult THEN MergeResult(sq, Judgment(r)) ELSE sq

CheckAnswersInSources(sqs, srcs, llm) ==
  IF Len(srcs) = 0 THEN sqs
  ELSE IF ~llm.ok THEN sqs
  ELSE [i \in 1..Len(sqs) |-> MergeJudgment(sqs[i], llm.conf[i])]

\* confidences a coverage judgment can carry, in tenths
Confs == IF world = "free" THEN {0, 2, 3} ELSE {0, 2, 3, 4, 5}

\* what the coverage model call gives: a failure or unparseable text (ok
\* FALSE), or one judgment or none per question
CoverageOutcomes(n) ==
  IF world # "free"
  THEN {[ok |-> TRUE,
          conf |-> [i \in 1..n |-> IF i = 1 /\ first THEN 5 ELSE c]] :
          c \in Confs, first \in BOOLEAN}
  ELSE {[ok |-> FALSE, conf |-> [i \in 1..n |-> NoResult]]} \cup
       {[ok |-> TRUE, conf |-> f] : f \in [1..n -> Confs \cup {NoResult}]}

\* ------------------------------------------------------------- documents
Source(u, c, s) == [url |-> u, content |-> c, summary |-> s]

\* answers of the summarizer; a negative sentence is given in free runs only
SummaryResponses ==
  IF world = "free" THEN {"empty", "negative", "fact"} ELSE {"empty", "fact"}

\* what summarizeContent returns (lines 1234-1259): "" when the model call
\* fails or answers nothing ("empty"), or the trimmed answer, which is a
\* finding ("fact") or a sentence saying that no specific information was
\* found ("negative"). A stored summary is 0 (unset), 1 (a finding) or 2 (a
\* negative sentence).
\* search node, line 429: summary && !summary...includes('no specific')
SearchSummary(response) == IF response = "fact" THEN 1 ELSE 0

\* scrape node, line 543: if (summary)
ScrapeSummary(response) ==
  IF response = "empty" THEN 0 ELSE IF response = "fact" THEN 1 ELSE 2

\* a source after the per-document processing of the search node: a summary
\* only for content longer than MIN_CONTENT_LENGTH (lines 425-430)
URLs == IF world = "wide" THEN 1..WideUrls ELSE 1..NumUrls

ProcessedSources ==
  {Source(u, c, IF c > MIN_CONTENT_LENGTH THEN SearchSummary(r) ELSE 0) :
     u \in URLs, c \in ContentLens, r \in SummaryResponses}

SearchBatches == SeqsUpTo(ProcessedSources, MaxBatch)

\* outcome of one direct fetch of the scrape node (lines 521-566): the
\* fetched content length and the summary that came back (ok), or a failure;
\* a failure is reported (note) when it is a timeout or a thrown error, and
\* passes in silence when the result is unsuccessful for another reason
ScrapeOutcomes ==
  {[ok |-> FALSE, content |-> 0, summary |-> 0, note |-> b] :
     b \in BOOLEAN} \cup
  {[ok |-> TRUE, content |-> c, summary |-> ScrapeSummary(r), note |-> FALSE] :
     c \in ContentLens \ {0}, r \in SummaryResponses}

NeedsScrape(s) == s.content = 0 \/ s.content < MIN_CONTENT_LENGTH
HasContent(s) == s.content # 0 /\ s.content >= MIN_CONTENT_LENGTH

RECURSIVE Enriched(_, _, _)
Enriched(toScrape, outcome, i) ==
  IF i > Min(Len(toScrape), MAX_SOURCES_TO_SCRAPE) THEN <<>>
  ELSE (IF outcome[i].ok
        THEN <<Source(toScrape[i].url, outcome[i].content,
                      IF outcome[i].summary # 0 THEN outcome[i].summary
                      ELSE toScrape[i].summary)>>
        ELSE <<>>) \o Enriched(toScrape, outcome, i + 1)

\* events of the scrape loop (lines 507-568), one document after the other:
\* scraping, then source-processing and (with a summary) source-complete for
\* a fetched document, a thinking event for a reported failure
RECURSIVE ScrapeEvents(_, _, _)
ScrapeEvents(toScrape, outcome, i) ==
  IF i > Min(Len(toScrape), MAX_SOURCES_TO_SCRAPE) THEN <<>>
  ELSE <<DocEv("scraping", toScrape[i].url)>>
       \o (IF outcome[i].ok
           THEN <<DocEv("source-processing", toScrape[i].url)>>
                \o (IF outcome[i].summary # 0
                    THEN <<DocEv("source-complete", toScrape[i].url)>>
                    ELSE <<>>)
           ELSE IF outcome[i].note THEN <<Ev("thinking")>> ELSE <<>>)
       \o ScrapeEvents(toScrape, outcome, i + 1)

\* analyze node, lines 590-599
AllSources(srcs, scraped) == MapValues(srcs \o scraped)

\* ---------------------------------------------------------- collaborators
\* extractSubQueries (lines 1093-1145) as used by the plan node: the parsed
\* array of sub-questions, each with or without a version pattern in its
\* text; the parsed JSON may also be no array, and then extracted.map throws
\* inside the node's try
Extractions ==
  IF world = "long"
  THEN {[i \in 1..LongSubQueries |-> i > k] : k \in {0, 1}}
  ELSE IF world \in {"wide", "stream"} THEN {<<FALSE>>}
  ELSE UNION {[1..n -> BOOLEAN] : n \in 0..MaxSubQueries}

\* whether the text of the request matches the version pattern of line
\* 1159: the requests of these runs carry no version number
RequestVersions == {FALSE}

\* outcome of a model call that can fail the node: TRUE when it succeeds
CallOutcomes == IF world # "free" THEN {TRUE} ELSE BOOLEAN

\* generateFollowUpQuestions (lines 1311-1363): a list of questions, or the
\* empty list when the model call fails or gives no usable line
FollowUpOutcomes ==
  IF world # "free" THEN {"some"} ELSE {"some", "empty", "throws"}

\* the list generateFollowUpQuestions returns: [] from its catch (line 1359)
FollowUpsUncaught(outcome) == outcome

FollowUps(outcome) == IF outcome = "throws" THEN "empty" ELSE outcome

\* outcome of the model call of generateAlternativeSearchQueries
AltOutcomes ==
  IF world = "long" THEN {LongSubQueries}
  ELSE IF world \in {"wide", "stream"} THEN {1}
  ELSE {LlmThrow} \cup (0..MaxAltLines)

\* ------------------------------------------------------------ graph edges
\* conditional edges of buildGraph (lines 818-888), given the state after the
\* node's update was applied
UnderstandEdge(ph) == IF ph = "error" THEN "handleError" ELSE "plan"
PlanEdge(ph) == IF ph = "error" THEN "handleError" ELSE "search"
\* an edge that takes the end of a round for a failure
SearchEdgeErrorAtEnd(ph, idx, queries) ==
  IF ph = "error" \/ idx >= Len(queries) THEN "handleError" ELSE "search"

SearchEdge(ph, idx, queries) ==
  IF ph = "error" THEN "handleError"
  ELSE IF idx < Len(queries) THEN "search" ELSE "scrape"
ScrapeEdge(ph) == IF ph = "error" THEN "handleError" ELSE "analyze"
AnalyzeEdgeBackToSearch(ph) ==
  IF ph = "error" THEN "handleError"
  ELSE IF ph = "planning" THEN "search" ELSE "synthesize"

AnalyzeEdge(ph) ==
  IF ph = "error" THEN "handleError"
  ELSE IF ph = "planning" THEN "plan" ELSE "synthesize"
SynthesizeEdgeAlwaysComplete(ph) == "complete"

SynthesizeEdge(ph) == IF ph = "error" THEN "handleError" ELSE "complete"
HandleErrorEdge(ph) == IF ph = "error" THEN "END" ELSE "understand"

\* graph.invoke with recursionLimit (lines 930-933): the Pregel loop runs one
\* node per superstep and, after each superstep, first tests the step budget
\* and only then looks for a next node; with the budget used up it throws
\* GraphRecursionError, also when no node is left to run.
OutOfStepsDefaultLimit == steps >= RECURSION_LIMIT - 10

OutOfSteps == steps >= RECURSION_LIMIT
CanRun(n) == pc = "invoke" /\ node = n /\ ~OutOfSteps

\* ------------------------------------------------------------------- Init
\* initialState of search() (lines 901-919), written through the reducers
RunInit ==
  /\ world \in Worlds
  /\ pc = "invoke"
  /\ node = "understand"
  /\ steps = 0
  /\ phase = "understanding"
  /\ understanding = FALSE
  /\ searchQueries = <<>>
  /\ currentSearchIndex = 0
  /\ sources = SourcesReducer(<<>>, <<>>)
  /\ scrapedSources = ScrapedSourcesReducer(<<>>, <<>>)
  /\ finalAnswer = Undef
  /\ followUpQuestions = Undef
  /\ subQueries = <<>>
  /\ hasSubQueries = FALSE
  /\ searchAttempt = 0
  /\ error = Undef
  /\ errorType = Undef
  /\ maxRetries = MAX_RETRIES
  /\ retryCount = 0
  /\ events = <<>>
  /\ terminalEmitted = FALSE
  /\ emittedAfterTerminal = FALSE
  /\ planRetries = 0
  /\ errorRetries = 0
  /\ mergedUrls = {}
  /\ dupMerged = FALSE
  /\ queryFailed = FALSE
  /\ failedCall = "none"
  /\ inFlight = NoBatch
  /\ fetchFailed = {}
  /\ streamed = ""
  /\ decompositions = 0

Init == RunInit /\ scoring = NoScoring

Step(next) ==
  /\ steps' = steps + 1 /\ node' = next /\ pc' = pc /\ world' = world
  /\ scoring' = scoring

\* ------------------------------------------------------------- understand
\* lines 231-263
Understand ==
  /\ CanRun("understand")
  /\ UNCHANGED <<inFlight, fetchFailed, decompositions>>
  /\ \E ok \in CallOutcomes :
       IF ok
       THEN /\ Emit(<<Ev("phase-update"), Ev("thinking")>>)
            /\ understanding' = TRUE
            /\ phase' = "planning"
            /\ failedCall' = "none"
            /\ UNCHANGED <<error, errorType>>
       ELSE /\ Emit(<<Ev("phase-update")>>)
            /\ error' = "message"
            /\ errorType' = "llm"
            /\ phase' = "error"
            /\ failedCall' = "understand"
            /\ UNCHANGED understanding
  /\ Step(UnderstandEdge(phase'))
  /\ UNCHANGED <<searchQueries, currentSearchIndex, sources, scrapedSources,
                 finalAnswer, followUpQuestions, subQueries, hasSubQueries, searchAttempt,
                 maxRetries, retryCount, planRetries, errorRetries,
                 mergedUrls, dupMerged, queryFailed>>

\* ------------------------------------------------------------------- plan
\* a plan step that decomposes whatever the state holds
NeedsDecompositionAlways(has) == TRUE

\* line 279, if (!subQueries): has says whether state.subQueries is set
NeedsDecomposition(has) == ~has

\* lines 266-353
Plan ==
  /\ CanRun("plan")
  /\ UNCHANGED <<inFlight, fetchFailed>>
  /\ decompositions' = IF NeedsDecomposition(hasSubQueries)
                       THEN decompositions + 1 ELSE decompositions
  /\ \E isArray \in CallOutcomes, ext \in Extractions, alt \in AltOutcomes,
        parsed \in CallOutcomes, v \in RequestVersions :
       IF NeedsDecomposition(hasSubQueries) /\ parsed /\ ~isArray
       THEN /\ Emit(<<Ev("phase-update")>>)
            /\ error' = "message"
            /\ errorType' = "llm"
            /\ phase' = "error"
            /\ failedCall' = "plan"
            /\ UNCHANGED <<subQueries, hasSubQueries, searchQueries,
                           currentSearchIndex>>
       ELSE LET sqs == IF NeedsDecomposition(hasSubQueries)
                       THEN ExtractedSubQueries(parsed, ext, v)
                       ELSE subQueries
                un == UnansweredIdx(sqs)
                queries == GenerateAlternativeSearchQueries(
                             sqs, searchAttempt, alt)
                failed == IF NeedsDecomposition(hasSubQueries) /\ ~parsed
                          THEN "extractSubQueries" ELSE "none"
            IN IF un = <<>>
               THEN /\ failedCall' = failed
                    /\ Emit(<<Ev("phase-update")>>)
                    /\ subQueries' = sqs
                    /\ hasSubQueries' = TRUE
                    /\ phase' = "analyzing"
                    /\ UNCHANGED <<searchQueries, currentSearchIndex,
                                   error, errorType>>
               ELSE /\ failedCall' = failed
                    /\ Emit(<<Ev("phase-update"), Ev("thinking")>>)
                    /\ IF searchAttempt > 0
                       THEN /\ searchQueries' = queries
                            /\ subQueries' = AssignAlternatives(sqs, queries)
                       ELSE /\ searchQueries' =
                                 [k \in 1..Len(un) |-> sqs[un[k]].searchQuery]
                            /\ subQueries' = sqs
                    /\ hasSubQueries' = TRUE
                    /\ currentSearchIndex' = 0
                    /\ phase' = "searching"
                    /\ UNCHANGED <<error, errorType>>
  /\ Step(PlanEdge(phase'))
  /\ UNCHANGED <<understanding, sources, scrapedSources, finalAnswer, followUpQuestions,
                 searchAttempt, maxRetries, retryCount, planRetries,
                 errorRetries, mergedUrls, dupMerged, queryFailed>>

\* --------------------------------------------------- events of the search
\* the orders in which the summaries of a batch can settle: the documents
\* that get a summary, each once, in any order
CompletionOrders(newSources) ==
  LET done == {i \in 1..Len(newSources) : newSources[i].summary = 1}
  IN {o \in [1..Cardinality(done) -> done] :
        \A a, b \in 1..Cardinality(done) : a # b => o[a] # o[b]}

\* the per-document tasks emit complete before processing
SearchDocEventsCompleteFirst(newSources, order) ==
  <<Ev("found")>>
  \o [k \in 1..Len(order) |->
        DocEv("source-complete", newSources[order[k]].url)]
  \o [i \in 1..Len(newSources) |->
        DocEv("source-processing", newSources[i].url)]

\* lines 401-441: the found event, then Promise.all over the documents. Each
\* task runs up to its first await when it is created, so the
\* source-processing events come in index order; a task with a summary
\* emits source-complete when summarizeContent settles, in the order given.
SearchDocEvents(newSources, order) ==
  <<Ev("found")>>
  \o [i \in 1..Len(newSources) |->
        DocEv("source-processing", newSources[i].url)]
  \o [k \in 1..Len(order) |->
        DocEv("source-complete", newSources[order[k]].url)]

\* ----------------------------------------------------------------- search
\* lines 356-490; one planned query per execution
\* the events a search step emits before the provider is called, lines
\* 361-367 and 377-384: the searching event counts the queries from 1
SearchHeadZeroBased(currentIndex, queries) ==
  (IF currentIndex = 0 THEN <<Ev("phase-update")>> ELSE <<>>)
  \o <<SearchingEv(currentIndex, Len(queries))>>

SearchHead(currentIndex, queries) ==
  (IF currentIndex = 0 THEN <<Ev("phase-update")>> ELSE <<>>)
  \o <<SearchingEv(currentIndex + 1, Len(queries))>>

Search ==
  /\ CanRun("search")
  /\ UNCHANGED <<inFlight, fetchFailed, decompositions>>
  /\ IF currentSearchIndex >= Len(searchQueries)
     THEN /\ Emit(IF currentSearchIndex = 0 THEN <<Ev("phase-update")>>
                  ELSE <<>>)
          /\ phase' = "scrape"
          /\ failedCall' = "none"
          /\ UNCHANGED <<currentSearchIndex, sources, errorType, mergedUrls,
                         dupMerged, queryFailed>>
     ELSE \E ok \in BOOLEAN, newSources \in SearchBatches :
            LET head == SearchHead(currentSearchIndex, searchQueries)
            IN IF ok
               THEN /\ \E order \in CompletionOrders(newSources) :
                         Emit(head \o SearchDocEvents(newSources, order))
                    /\ sources' = SourcesReducer(sources, newSources)
                    /\ mergedUrls' = mergedUrls \cup UrlsOf(newSources)
                    /\ dupMerged' = (dupMerged \/ HasRepeat(sources, newSources))
                    /\ currentSearchIndex' = currentSearchIndex + 1
                    /\ failedCall' = "none"
                    /\ UNCHANGED <<errorType, phase, queryFailed>>
               ELSE /\ newSources = <<>>
                    /\ Emit(head)
                    /\ currentSearchIndex' = currentSearchIndex + 1
                    /\ errorType' = "search"
                    /\ queryFailed' = TRUE
                    /\ failedCall' = "search"
                    /\ UNCHANGED <<sources, phase, mergedUrls, dupMerged>>
  /\ Step(SearchEdge(phase', currentSearchIndex', searchQueries))
  /\ UNCHANGED <<understanding, searchQueries, scrapedSources, finalAnswer, followUpQuestions,
                 subQueries, hasSubQueries, searchAttempt, error,
                 maxRetries, retryCount, planRetries, errorRetries>>

\* ------------------------------------- the search node, task by task
\* The same node with the await of Promise.all (lines 410-441) as a place
\* where it can be observed: SearchStart runs the node up to the await,
\* SummarySettles is the settlement of one per-document task, SearchJoin is
\* the rest of the node once Promise.all resolves.

\* what the provider returns (lines 394-399): documents without a summary
RawBatches ==
  {b \in SearchBatches : \A i \in 1..Len(b) : b[i].summary = 0}

\* a task is waiting for summarizeContent only when the content is longer
\* than MIN_CONTENT_LENGTH (line 425); otherwise it ends without an await
AwaitsSummary(doc) == doc.content # 0 /\ doc.content > MIN_CONTENT_LENGTH

\* Promise.all resolves when every task of the batch has settled
JoinReadyNoWait(tasks) == TRUE

JoinReady(tasks) == \A i \in 1..Len(tasks) : tasks[i].done

\* the paths of the search node that start no task: no query is left (lines
\* 369-373) or the provider call fails (lines 484-489)
SearchNoBatch ==
  /\ ~inFlight.active
  /\ Search
  /\ (currentSearchIndex >= Len(searchQueries) \/ failedCall' = "search")

\* lines 356-423: the provider answers, the found event is emitted and every
\* task runs up to its first await
SearchStart ==
  /\ CanRun("search")
  /\ ~inFlight.active
  /\ currentSearchIndex < Len(searchQueries)
  /\ \E raw \in RawBatches :
       /\ Emit(SearchHead(currentSearchIndex, searchQueries)
               \o <<Ev("found")>>
               \o [i \in 1..Len(raw) |->
                     DocEv("source-processing", raw[i].url)])
       /\ inFlight' =
            [active |-> TRUE,
             tasks |-> [i \in 1..Len(raw) |->
                          [doc |-> raw[i], done |-> ~AwaitsSummary(raw[i])]]]
  /\ UNCHANGED <<world, pc, node, steps, scoring>>
  /\ UNCHANGED stateVars

\* lines 426-439: summarizeContent returns for one document; a usable
\* summary is stored in the source object and reported
SummarySettles ==
  /\ CanRun("search")
  /\ inFlight.active
  /\ \E i \in 1..Len(inFlight.tasks), r \in SummaryResponses :
       /\ ~inFlight.tasks[i].done
       /\ inFlight' =
            [inFlight EXCEPT !.tasks[i] =
               [doc |-> [@.doc EXCEPT !.summary = SearchSummary(r)],
                done |-> TRUE]]
       /\ Emit(IF SearchSummary(r) = 1
               THEN <<DocEv("source-complete", inFlight.tasks[i].doc.url)>>
               ELSE <<>>)
  /\ UNCHANGED <<world, pc, node, steps, scoring>>
  /\ UNCHANGED stateVars

\* lines 480-483: the await is over and the node returns the batch
SearchJoin ==
  /\ CanRun("search")
  /\ inFlight.active
  /\ JoinReady(inFlight.tasks)
  /\ LET newSources ==
           [i \in 1..Len(inFlight.tasks) |-> inFlight.tasks[i].doc]
     IN /\ sources' = SourcesReducer(sources, newSources)
        /\ mergedUrls' = mergedUrls \cup UrlsOf(newSources)
        /\ dupMerged' = (dupMerged \/ HasRepeat(sources, newSources))
  /\ currentSearchIndex' = currentSearchIndex + 1
  /\ failedCall' = "none"
  /\ inFlight' = NoBatch
  /\ Emit(<<>>)
  /\ Step(SearchEdge(phase, currentSearchIndex', searchQueries))
  /\ UNCHANGED <<phase, understanding, searchQueries, scrapedSources,
                 finalAnswer, followUpQuestions, subQueries, hasSubQueries,
                 searchAttempt, error, errorType, maxRetries, retryCount,
                 planRetries, errorRetries, queryFailed, fetchFailed,
                 decompositions>>

\* ----------------------------------------------------------------- scrape
\* lines 493-576
Scrape ==
  /\ CanRun("scrape")
  /\ UNCHANGED <<inFlight, decompositions>>
  /\ LET toScrape == SelectSeq(sources, NeedsScrape)
         withContent == SelectSeq(sources, HasContent)
         n == Min(Len(toScrape), MAX_SOURCES_TO_SCRAPE)
     IN \E outcome \in [1..n -> ScrapeOutcomes] :
          /\ scrapedSources' =
               ScrapedSourcesReducer(scrapedSources,
                                     withContent \o Enriched(toScrape, outcome, 1))
          /\ Emit(ScrapeEvents(toScrape, outcome, 1))
          /\ fetchFailed' = {toScrape[i].url : i \in {j \in 1..n : ~outcome[j].ok}}
  /\ phase' = "analyzing"
  /\ Step(ScrapeEdge(phase'))
  /\ failedCall' = "none"
  /\ UNCHANGED <<understanding, searchQueries, currentSearchIndex, sources,
                 finalAnswer, followUpQuestions, subQueries, hasSubQueries, searchAttempt,
                 error, errorType, maxRetries, retryCount, planRetries,
                 errorRetries, mergedUrls, dupMerged, queryFailed>>

\* ---------------------------------------------------------------- analyze
\* retry decision of the analyze node, lines 606-612 and 646-650
ShouldRetryNoAttemptCap(updated, attempt) ==
  LET answeredCount == Cardinality({i \in 1..Len(updated) : updated[i].answered})
      partialAnswers ==
        Cardinality({i \in 1..Len(updated) :
                       updated[i].confidence >= PARTIAL_CONFIDENCE})
      hasPartialInfo == partialAnswers > answeredCount
  IN /\ answeredCount < Len(updated)
     /\ ~(hasPartialInfo /\ attempt >= 2)

ShouldRetryOffByOne(updated, attempt) ==
  LET answeredCount == Cardinality({i \in 1..Len(updated) : updated[i].answered})
      partialAnswers ==
        Cardinality({i \in 1..Len(updated) :
                       updated[i].confidence >= PARTIAL_CONFIDENCE})
      hasPartialInfo == partialAnswers > answeredCount
  IN /\ answeredCount < Len(updated)
     /\ attempt <= MAX_SEARCH_ATTEMPTS
     /\ ~(hasPartialInfo /\ attempt >= 2)

ShouldRetry(updated, attempt) ==
  LET answeredCount == Cardinality({i \in 1..Len(updated) : updated[i].answered})
      partialAnswers ==
        Cardinality({i \in 1..Len(updated) :
                       updated[i].confidence >= PARTIAL_CONFIDENCE})
      hasPartialInfo == partialAnswers > answeredCount
  IN /\ answeredCount < Len(updated)
     /\ attempt < MAX_SEARCH_ATTEMPTS
     /\ ~(hasPartialInfo /\ attempt >= 2)

\* lines 579-712
Analyze ==
  /\ CanRun("analyze")
  /\ UNCHANGED <<inFlight, decompositions>>
  /\ fetchFailed' = {}
  /\ LET allSources == AllSources(sources, scrapedSources)
     IN /\ sources' = SourcesReducer(sources, allSources)
        /\ mergedUrls' = mergedUrls \cup UrlsOf(allSources)
        /\ dupMerged' = (dupMerged \/ HasRepeat(sources, allSources))
        /\ IF hasSubQueries
           THEN \E llm \in CoverageOutcomes(Len(subQueries)) :
                  LET updated == CheckAnswersInSources(subQueries, allSources, llm)
                      attempt == searchAttempt + 1
                  IN /\ Emit(<<Ev("phase-update"), Ev("thinking")>>)
                     /\ failedCall' = IF Len(allSources) > 0 /\ ~llm.ok
                                      THEN "checkAnswers" ELSE "none"
                     /\ subQueries' = updated
                     /\ searchAttempt' = attempt
                     /\ phase' = IF ShouldRetry(updated, attempt)
                                 THEN "planning" ELSE "synthesizing"
           ELSE /\ Emit(IF Len(allSources) > 0
                        THEN <<Ev("phase-update"), Ev("thinking")>>
                        ELSE <<Ev("phase-update")>>)
                /\ phase' = "synthesizing"
                /\ failedCall' = "none"
                /\ UNCHANGED <<subQueries, searchAttempt>>
  /\ Step(AnalyzeEdge(phase'))
  /\ planRetries' = IF node' = "plan" THEN planRetries + 1 ELSE planRetries
  /\ UNCHANGED <<understanding, searchQueries, currentSearchIndex,
                 scrapedSources, finalAnswer, followUpQuestions, hasSubQueries, error, errorType,
                 maxRetries, retryCount, errorRetries, queryFailed>>

\* ------------------------------------------------------------- synthesize
\* generateStreamingAnswer (lines 1261-1309) gives an answer when the stream
\* succeeds or, after a failed stream, when the non-streaming call succeeds
SynthesisOk(streamOk, fallbackOk) == streamOk \/ fallbackOk

\* the chunks of the answer as the streaming model delivers it, and the
\* text of the same answer as the non-streaming model gives it
AnswerChunks == SubSeq(<<"a", "b", "c">>, 1, MaxChunks)
AnswerText == Join(AnswerChunks)

\* what the stream does: it delivers the whole answer and ends, or it fails:
\* before the first chunk in a free run, after any number of the chunks
\* (none and all included) in a stream run
StreamOutcomes ==
  {[ok |-> TRUE, chunks |-> AnswerChunks]} \cup
  (IF world = "free" THEN {[ok |-> FALSE, chunks |-> <<>>]}
   ELSE IF world = "stream"
   THEN {[ok |-> FALSE, chunks |-> SubSeq(AnswerChunks, 1, k)] :
           k \in 0..Len(AnswerChunks)}
   ELSE {})

\* outcome of the non-streaming call of the fallback: TRUE when it succeeds
FallbackOutcomes == IF world \in {"free", "stream"} THEN BOOLEAN ELSE {TRUE}

\* the same without the catch of lines 1301-1306
GenerateStreamingAnswerNoFallback(stream, fallbackOk) ==
  [ok |-> stream.ok,
   text |-> IF stream.ok THEN Join(stream.chunks) ELSE Undef,
   chunks |-> stream.chunks,
   fallbackCalls |-> 0]

\* generateStreamingAnswer, lines 1289-1308: text is the value returned,
\* chunks the arguments of the calls of onChunk in order, fallbackCalls the
\* number of non-streaming model calls made; ok is FALSE when it throws
GenerateStreamingAnswer(stream, fallbackOk) ==
  IF stream.ok
  THEN [ok |-> TRUE, text |-> Join(stream.chunks), chunks |-> stream.chunks,
        fallbackCalls |-> 0]
  ELSE [ok |-> SynthesisOk(stream.ok, fallbackOk),
        text |-> IF fallbackOk THEN AnswerText ELSE Undef,
        chunks |-> stream.chunks
                   \o (IF fallbackOk THEN <<AnswerText>> ELSE <<>>),
        fallbackCalls |-> 1]

\* lines 715-760
Synthesize ==
  /\ CanRun("synthesize")
  /\ UNCHANGED <<inFlight, fetchFailed, decompositions>>
  /\ \E stream \in StreamOutcomes, fallbackOk \in FallbackOutcomes,
        followUps \in FollowUpOutcomes :
       LET answer == GenerateStreamingAnswer(stream, fallbackOk)
           ok == answer.ok
           list == <<Ev("phase-update")>>
                   \o [i \in 1..Len(answer.chunks) |->
                         ChunkEv(answer.chunks[i])]
       IN IF ok
          THEN /\ Emit(list)
               /\ failedCall' = IF followUps = "throws" THEN "followUp"
                                ELSE "none"
               /\ finalAnswer' = Keep(finalAnswer, answer.text)
               /\ followUpQuestions' =
                    Keep(followUpQuestions, FollowUps(followUps))
               /\ phase' = "complete"
               /\ UNCHANGED <<error, errorType>>
          ELSE /\ Emit(list)
               /\ failedCall' = "synthesize"
               /\ error' = "message"
               /\ errorType' = "llm"
               /\ phase' = "error"
               /\ UNCHANGED <<finalAnswer, followUpQuestions>>
  /\ Step(SynthesizeEdge(phase'))
  /\ UNCHANGED <<understanding, searchQueries, currentSearchIndex, sources,
                 scrapedSources, subQueries, hasSubQueries, searchAttempt,
                 maxRetries, retryCount, planRetries, errorRetries,
                 mergedUrls, dupMerged, queryFailed>>

\* ------------------------------------------------------------ handleError
\* guard of the retry, line 775
MayRetryAlways(count, max) == TRUE

MayRetry(count, max) == count < max

\* the kinds of error of the type ErrorType
ErrorTypes == {"search", "scrape", "llm", "unknown"}

\* phase set by a retry, line 778
RetryPhase(kind) == IF kind = "search" THEN "searching" ELSE "understanding"

\* lines 763-791
HandleError ==
  /\ CanRun("handleError")
  /\ UNCHANGED <<inFlight, fetchFailed, decompositions>>
  /\ IF MayRetry(retryCount, maxRetries)
     THEN /\ Emit(<<ErrorEv(errorType, FALSE)>>)
          /\ retryCount' = retryCount + 1
          /\ phase' = RetryPhase(errorType)
          /\ error' = Keep(error, Undef)
          /\ errorType' = Keep(errorType, Undef)
     ELSE /\ Emit(<<ErrorEv(errorType, TRUE)>>)
          /\ phase' = "error"
          /\ UNCHANGED <<retryCount, error, errorType>>
  /\ Step(HandleErrorEdge(phase'))
  /\ failedCall' = "none"
  /\ errorRetries' = IF node' = "understand" THEN errorRetries + 1
                     ELSE errorRetries
  /\ UNCHANGED <<understanding, searchQueries, currentSearchIndex, sources,
                 scrapedSources, finalAnswer, followUpQuestions, subQueries, hasSubQueries,
                 searchAttempt, maxRetries, planRetries, mergedUrls,
                 dupMerged, queryFailed>>

\* --------------------------------------------------------------- complete
\* lines 794-815
Complete ==
  /\ CanRun("complete")
  /\ UNCHANGED <<inFlight, fetchFailed, decompositions>>
  /\ Emit(<<Ev("phase-update"),
            FinalEv(IF finalAnswer = Undef THEN "" ELSE finalAnswer,
                    sources, followUpQuestions)>>)
  /\ phase' = "complete"
  /\ Step("END")
  /\ failedCall' = "none"
  /\ UNCHANGED <<understanding, searchQueries, currentSearchIndex, sources,
                 scrapedSources, finalAnswer, followUpQuestions, subQueries, hasSubQueries,
                 searchAttempt, error, errorType, maxRetries, retryCount,
                 planRetries, errorRetries, mergedUrls, dupMerged, queryFailed>>

\* ----------------------------------------------------------------- search()
\* what the catch of search() does with an error thrown by graph.invoke
CatchEvents == <<ErrorEv("unknown", TRUE)>>

\* the graph ended within the step budget: invoke resolves (lines 930-933)
InvokeReturns ==
  /\ pc = "invoke" /\ node = "END" /\ ~OutOfSteps
  /\ pc' = "done"
  /\ UNCHANGED <<world, node, steps, events, terminalEmitted,
                 emittedAfterTerminal, inFlight, streamed, scoring>>
  /\ UNCHANGED stateVars

\* the step budget is used up: invoke throws GraphRecursionError and the
\* catch of search() reports it (lines 934-940)
InvokeThrows ==
  /\ pc = "invoke" /\ OutOfSteps
  /\ Emit(CatchEvents)
  /\ pc' = "done"
  /\ UNCHANGED <<world, node, steps, inFlight, scoring>>
  /\ UNCHANGED stateVars

Next ==
  \/ Understand
  \/ Plan
  \/ Search
  \/ Scrape
  \/ Analyze
  \/ Synthesize
  \/ HandleError
  \/ Complete
  \/ InvokeReturns
  \/ InvokeThrows

Spec == Init /\ [][Next]_vars

\* what every step of Next does to the two counters of the run: a node step
\* adds a superstep, a step of search() ends the invocation
Advance ==
  /\ pc = "invoke"
  /\ \/ steps' = steps + 1 /\ pc' = pc
     \/ steps' = steps /\ pc' = "done"

\* every await of a node settles (each external call returns or fails), so a
\* run that is still invoking the graph eventually takes its next step; that
\* such a run always has a step to take is part of C1
LiveSpec == Spec /\ WF_<<pc, steps>>(Advance)

\* the same program with the search node observed task by task
JoinNext ==
  \/ Understand
  \/ Plan
  \/ SearchNoBatch
  \/ SearchStart
  \/ SummarySettles
  \/ SearchJoin
  \/ Scrape
  \/ Analyze
  \/ Synthesize
  \/ HandleError
  \/ Complete
  \/ InvokeReturns
  \/ InvokeThrows

JoinSpec == Init /\ [][JoinNext]_vars

\* ------------------------------------------------------------ scoreContent
\* a text is a sequence of characters
QueryChars == {"a", "B", " "}
ContentChars == {"A", "b"}

\* String.prototype.toLowerCase on the characters used here
ToLowerChar(c) == IF c = "A" THEN "a" ELSE IF c = "B" THEN "b" ELSE c
ToLowerCase(text) == [i \in 1..Len(text) |-> ToLowerChar(text[i])]

RECURSIVE SplitFrom(_, _, _)
\* text.split(' ') from position i on, cur being the word read so far
SplitFrom(text, i, cur) ==
  IF i > Len(text) THEN <<cur>>
  ELSE IF text[i] = " " THEN <<cur>> \o SplitFrom(text, i + 1, <<>>)
  ELSE SplitFrom(text, i + 1, Append(cur, text[i]))

Split(text) == SplitFrom(text, 1, <<>>)

\* String.prototype.includes
Includes(text, word) ==
  \E p \in 0..(Len(text) - Len(word)) :
    SubSeq(text, p + 1, p + Len(word)) = word

RECURSIVE ScoreLoop(_, _, _)
\* the loop of lines 1227-1229; a score is a number of tenths
ScoreLoop(words, contentLower, score) ==
  IF words = <<>> THEN score
  ELSE ScoreLoop(Tail(words), contentLower,
                 IF Includes(contentLower, Head(words)) THEN score + 2
                 ELSE score)

\* the same without Math.min
ScoreContentUncapped(content, query) ==
  ScoreLoop(Split(ToLowerCase(query)), ToLowerCase(content), 0)

\* scoreContent, lines 1222-1232
ScoreContent(content, query) ==
  Min(ScoreLoop(Split(ToLowerCase(query)), ToLowerCase(content), 0), 10)

\* the arguments a call is looked at with
ScoreInputs ==
  {[content |-> c, query |-> q, score |-> -1] :
     c \in SeqsUpTo(ContentChars, MaxContentLen),
     q \in SeqsUpTo(QueryChars, MaxQueryLen)}

ScoreInit == RunInit /\ world = "free" /\ scoring \in ScoreInputs

\* the call returns; scoreContent reads and writes nothing but its arguments
\* and its locals
ScoreReturns ==
  /\ scoring.score = -1
  /\ scoring' = [scoring EXCEPT
                   !.score = ScoreContent(scoring.content, scoring.query)]
  /\ UNCHANGED <<world, pc, node, steps, events, terminalEmitted,
                 emittedAfterTerminal, inFlight, streamed>>
  /\ UNCHANGED stateVars

ScoreNext == ScoreReturns

ScoreSpec == ScoreInit /\ [][ScoreNext]_vars

TypeOK ==
  /\ pc \in {"invoke", "done"}
  /\ node \in {"understand", "plan", "search", "scrape", "analyze",
               "synthesize", "handleError", "complete", "END"}
  /\ steps \in 0..RECURSION_LIMIT
  /\ retryCount \in Nat /\ searchAttempt \in Nat
  /\ world \in Worlds
  /\ Len(subQueries) <= IF world = "long" THEN LongSubQueries ELSE MaxSubQueries

\* ================================================================ claims
HasFinal == \E i \in 1..Len(events) : events[i].type = "final-result"
HasError(kind) ==
  \E i \in 1..Len(events) :
    events[i].type = "error" /\ events[i].errorType = kind

\* C1: every run of search() terminates and delivers a terminal event: it
\* eventually has returned (pc = "done") and stays so, a run that has not
\* returned always has a step to take (no node blocks), and a run that has
\* returned has emitted a final-result or a terminal error event.
C1_Terminates ==
  /\ <>[](pc = "done")
  /\ [](pc = "done" \/ ENABLED Next)
  /\ [](pc = "done" => terminalEmitted /\ events # <<>>)

\* a run that suffered failed queries and an error restart has returned with
\* its terminal event
C1_Witness ==
  pc = "done" /\ terminalEmitted /\ queryFailed /\ retryCount > 0

\* C2: the number of analyze -> plan transitions of a run is at most
\* MAX_SEARCH_ATTEMPTS, error restarts included.
C2_PlanRetriesBounded == planRetries <= MAX_SEARCH_ATTEMPTS

\* a run that was restarted by the error state and went back to planning as
\* often as the code allows
C2_Witness == planRetries = MAX_SEARCH_ATTEMPTS - 1 /\ errorRetries >= 1

\* C3: the number of transitions from the error state back into the pipeline
\* is at most MAX_RETRIES; retryCount never exceeds maxRetries and no step
\* resets or decrements it.
C3_ErrorRetriesBounded ==
  /\ [](errorRetries <= MAX_RETRIES /\ retryCount <= maxRetries)
  /\ [][retryCount' >= retryCount]_vars

\* the error state has given its last retry
C3_Witness == errorRetries = MAX_RETRIES /\ retryCount = maxRetries

\* C4 (as claimed): a run whose planned queries all returned zero documents
\* ends with an error event of kind search and emits no final-result event.
C4_NoEvidenceFails ==
  (pc = "done" /\ sources = <<>> /\ Len(searchQueries) > 0
     /\ searchAttempt >= 1)
  => (~HasFinal /\ HasError("search"))

\* C5: no step lowers the stored confidence of a sub-question (and no step
\* drops a sub-question once the list exists).
C5_ConfidenceMonotone ==
  [][hasSubQueries =>
       /\ hasSubQueries'
       /\ Len(subQueries') = Len(subQueries)
       /\ \A i \in 1..Len(subQueries) :
            subQueries'[i].confidence >= subQueries[i].confidence]_vars

\* a sub-question holds a confidence above 0 after a second coverage check
\* that followed an error restart
C5_Witness ==
  /\ retryCount >= 1 /\ searchAttempt >= 2
  /\ \E i \in 1..Len(subQueries) : subQueries[i].confidence > 0

\* C6: the Source Registry holds exactly one entry per distinct URL merged
\* so far.
C6_OneEntryPerUrl ==
  /\ Len(sources) = Cardinality(UrlsOf(sources))
  /\ UrlsOf(sources) = mergedUrls

\* repeated URLs were merged and the Registry holds every URL of the run
C6_Witness ==
  dupMerged /\ world = "wide" /\ Len(sources) = WideUrls

\* C7: merging a batch into the Registry a second time changes nothing, for
\* every Registry the program reaches and every batch the provider can give.
C7_MergeIdempotent ==
  \A b \in SearchBatches :
    SourcesReducer(SourcesReducer(sources, b), b) = SourcesReducer(sources, b)

\* the Registry has absorbed a batch with two versions of one URL: merging
\* that batch again leaves it as it is
C7_Witness ==
  \E b \in SearchBatches :
    /\ Len(b) = 2 /\ b[1].url = b[2].url /\ b[1] # b[2]
    /\ sources # <<>> /\ dupMerged
    /\ SourcesReducer(sources, b) = sources

\* C8 (as claimed): once the Registry holds a version of a URL with content
\* (with a summary), no step leaves it with a version of that URL without.
C8_NeverDowngraded ==
  [][\A i \in 1..Len(sources) :
       /\ sources[i].content > 0 =>
            \E j \in 1..Len(sources') :
              sources'[j].url = sources[i].url /\ sources'[j].content > 0
       /\ sources[i].summary = 1 =>
            \E j \in 1..Len(sources') :
              sources'[j].url = sources[i].url /\ sources'[j].summary = 1]_vars

\* C9 (as claimed): search() reports every failure on the event callback and
\* emits nothing after a final-result event or after the terminal error event.
C9_NothingAfterTerminal ==
  /\ ~emittedAfterTerminal
  /\ (pc = "done" => terminalEmitted)

\* C10 (as claimed): a failed query does not abort the round (scraping starts
\* only when every planned query was executed), and a run with failed queries
\* in which no model call failed ends with a final-result event.
C10_FailedQueryTolerated ==
  /\ (node \in {"scrape", "analyze"} =>
        currentSearchIndex >= Len(searchQueries))
  /\ (pc = "done" /\ queryFailed /\ error = Undef /\ world # "free"
        => HasFinal)

\* C11 (as claimed): partial-information early stop. A sub-question that the
\* first coverage check leaves with confidence 0.4 counts as not answered, so
\* the run goes back to planning; when the second coverage check leaves a
\* sub-question with confidence 0.5 while another one is answered, the run
\* goes on to synthesizing.
C11_PartialInfoEarlyStop ==
  [][node = "analyze" /\ node' # "analyze" /\ hasSubQueries =>
       /\ (searchAttempt' = 1 /\
             (\E i \in 1..Len(subQueries') : subQueries'[i].confidence = 4)
             => node' = "plan")
       /\ (searchAttempt' = 2 /\
             (\E i, j \in 1..Len(subQueries') :
                /\ i # j
                /\ subQueries'[i].confidence = 5
                /\ subQueries'[j].answered)
             => node' = "synthesize")]_vars

\* C12: the final-result event carries all sources of the run: its sources
\* hold every URL that a successfully processed query returned, each exactly
\* once, and it carries the synthesized answer and the follow-up list.
C12_FinalCarriesAllSources ==
  \A i \in 1..Len(events) :
    events[i].type = "final-result" =>
      LET d == events[i].data
      IN /\ UrlsOf(d.sources) = mergedUrls
         /\ Len(d.sources) = Cardinality(mergedUrls)
         /\ d.content = finalAnswer /\ finalAnswer # Undef
         /\ d.followUpQuestions # Undef

\* a final-result event with the documents of several URLs, some of which
\* were returned more than once
C12_Witness ==
  /\ HasFinal
  /\ dupMerged
  /\ Cardinality(mergedUrls) = WideUrls
  /\ queryFailed

\* source-complete events of a list are each preceded by a source-processing
\* event for the same URL
ProcessingBeforeComplete(list) ==
  \A k \in 1..Len(list) :
    list[k].type = "source-complete" =>
      \E j \in 1..(k - 1) :
        list[j].type = "source-processing" /\ list[j].url = list[k].url

\* C13: per-document event order. Whatever batch a query returns and in
\* whatever order the summaries of its documents settle, each source-complete
\* event of the batch comes after a source-processing event for the same URL,
\* and all of them come after the found event of the query (the first event
\* of the batch); the same order holds for the documents of a scraping pass.
C13_PerDocumentOrder ==
  /\ \A b \in SearchBatches : \A order \in CompletionOrders(b) :
        LET list == SearchDocEvents(b, order)
        IN /\ ProcessingBeforeComplete(list)
           /\ list[1].type = "found"
           /\ \A k \in 2..Len(list) : list[k].type # "found"
           /\ Cardinality({k \in 1..Len(list) :
                             list[k].type = "source-complete"}) = Len(order)
  /\ LET toScrape == SelectSeq(sources, NeedsScrape)
         n == Min(Len(toScrape), MAX_SOURCES_TO_SCRAPE)
     IN \A outcome \in [1..n -> ScrapeOutcomes] :
          ProcessingBeforeComplete(ScrapeEvents(toScrape, outcome, 1))

\* the registry holds the documents of a batch of two that both got a summary
\* (two concurrent tasks that can settle in either order), and the scraping
\* pass of the round has run
C13_Witness ==
  /\ world = "wide"
  /\ Len(sources) = 2
  /\ \A i \in 1..Len(sources) : sources[i].summary = 1
  /\ node = "analyze"
  /\ \E b \in SearchBatches :
       Len(b) = 2 /\ Cardinality(CompletionOrders(b)) = 2

C16_RetryClearsError ==
  [][node = "handleError" /\ node' = "understand" =>
       error' = Undef /\ errorType' = Undef]_vars

\* C17: critical model-call failures drive the run to the error state with
\* kind llm: when the model call of understand fails, or when synthesis fails
\* (stream and non-streaming fallback), the error message is set with kind
\* llm and the next node executed is handleError.
C17_CriticalFailureToError ==
  [][failedCall' \in {"understand", "synthesize"} =>
       /\ error' # Undef
       /\ errorType' = "llm"
       /\ phase' = "error"
       /\ node' = "handleError"]_vars

\* both failures happened in one run: the understanding call failed, the run
\* was restarted, and later synthesis failed
C17_Witness ==
  /\ failedCall = "synthesize"
  /\ node = "handleError"
  /\ retryCount >= 1
  /\ finalAnswer = Undef
  /\ understanding = TRUE

\* C18: when the plan node finds no unanswered sub-question (it returns the
\* phase analyzing), the pipeline skips directly to analyzing: the next node
\* executed is analyze, so that no search node and no scraping pass runs
\* before the next coverage check.
C18_SkipToAnalyzing ==
  [][node = "plan" /\ steps' # steps /\ phase' = "analyzing" =>
       node' = "analyze"]_vars

\* C19: index-driven search loop. A plan step that plans queries sets the
\* search index to 0; a search step never changes the planned queries and
\* raises the index by exactly 1 when a query is left (whether the query
\* succeeds or fails); the searching event of that step has
\* 1 <= index <= total with total the number of planned queries; the index
\* never passes the number of planned queries, and after a search step the
\* next node is scrape exactly when the index equals that number, and search
\* again otherwise.
C19_IndexDrivenSearch ==
  /\ [](currentSearchIndex <= Len(searchQueries))
  /\ [](node = "search" /\ currentSearchIndex < Len(searchQueries) =>
          LET IsSearching(e) == e.type = "searching"
              s == SelectSeq(SearchHead(currentSearchIndex, searchQueries),
                             IsSearching)
          IN /\ Len(s) = 1
             /\ 1 <= s[1].index
             /\ s[1].index <= s[1].total
             /\ s[1].index = currentSearchIndex + 1
             /\ s[1].total = Len(searchQueries))
  /\ [][node = "plan" /\ steps' # steps /\ phase' = "searching" =>
          currentSearchIndex' = 0]_vars
  /\ [][node = "search" /\ steps' # steps =>
          /\ searchQueries' = searchQueries
          /\ currentSearchIndex' =
               IF currentSearchIndex < Len(searchQueries)
               THEN currentSearchIndex + 1 ELSE currentSearchIndex
          /\ (node' = "scrape") <=> (currentSearchIndex' = Len(searchQueries))
          /\ (node' = "search") <=> (currentSearchIndex' < Len(searchQueries))
     ]_vars

\* a round of ten planned queries has been searched to the end, one query at
\* least having failed, and the scraping pass is next
C19_Witness ==
  /\ node = "scrape"
  /\ Len(searchQueries) = LongSubQueries
  /\ currentSearchIndex = Len(searchQueries)
  /\ queryFailed

\* C20: each query that fails at the provider is reported to the caller by
\* an error event for that query: the search step whose provider call fails
\* delivers an error event to the callback.
C20_FailedQueryReported ==
  [][failedCall' = "search" =>
       /\ Len(events') > Len(events)
       /\ events'[Len(events')].type = "error"]_vars

\* C21: a document whose content is shorter than the minimum content length
\* never enters the registry: every entry of sources has content of at least
\* MIN_CONTENT_LENGTH characters.
C21_NoShortDocuments ==
  \A i \in 1..Len(sources) : sources[i].content >= MIN_CONTENT_LENGTH

\* C22: the search node joins its fan-out. The node returns (the batch is
\* merged and the graph takes its next step) only when every per-document
\* task of the batch has settled, the merged registry then holds the result
\* of every task (for a URL that the batch repeats, of the last one), and no
\* node other than search, in particular no coverage check, runs while a
\* task is in flight.
C22_JoinBeforeAdvance ==
  /\ [](node # "search" => ~inFlight.active)
  /\ [][inFlight.active /\ steps' # steps =>
          /\ \A i \in 1..Len(inFlight.tasks) : inFlight.tasks[i].done
          /\ ~inFlight'.active
          /\ \A i \in 1..Len(inFlight.tasks) :
               LET d == inFlight.tasks[i].doc
               IN /\ d.url \in UrlsOf(sources')
                  /\ (\A j \in (i + 1)..Len(inFlight.tasks) :
                        inFlight.tasks[j].doc.url # d.url)
                     => \E k \in 1..Len(sources') : sources'[k] = d
     ]_vars

\* a batch of two documents whose summaries were both awaited has been
\* merged, summaries included, and the coverage check is about to run
C22_Witness ==
  /\ node = "analyze"
  /\ world = "wide"
  /\ ~inFlight.active
  /\ Len(sources) = 2
  /\ \A i \in 1..Len(sources) : sources[i].summary = 1

\* C23: the registry merge is commutative per URL: merging two versions of a
\* document with the same URL in either order gives the same registry, for
\* every registry the program reaches.
C23_MergeCommutative ==
  \A a, b \in ProcessedSources :
    a.url = b.url =>
      SourcesReducer(SourcesReducer(sources, <<a>>), <<b>>)
        = SourcesReducer(SourcesReducer(sources, <<b>>), <<a>>)

\* C24: coverage merge rule. For every stored judgment and every new one, the
\* new judgment replaces the stored one only if its confidence is strictly
\* greater (otherwise answered, confidence, answer text and supporting URLs
\* stay as they are), and when it replaces, answered is set to
\* (new confidence >= MIN_ANSWER_CONFIDENCE) whatever flag the model reports;
\* every coverage check of a run changes the sub-questions in this way only.
StoredJudgments ==
  {[answered |-> c >= MIN_ANSWER_CONFIDENCE, confidence |-> c,
    searchQuery |-> Query("orig", 1), version |-> FALSE,
    answer |-> a, sources |-> s] :
     c \in {0, 2, 3, 4}, a \in {Undef, "old"}, s \in {{}, {1}}}

NewJudgments ==
  {[answered |-> f, confidence |-> c, answer |-> "new", sources |-> s] :
     f \in BOOLEAN, c \in {0, 2, 3, 4}, s \in {{}, {1}, {2}}}

C24_StrictlyGreaterReplaces ==
  /\ [](\A sq \in StoredJudgments, r \in NewJudgments :
         LET out == MergeResult(sq, r)
         IN IF r.confidence > sq.confidence
            THEN /\ out.confidence = r.confidence
                 /\ out.answered = (r.confidence >= MIN_ANSWER_CONFIDENCE)
                 /\ out.answer = r.answer
                 /\ out.sources = sq.sources \cup r.sources
                 /\ out.searchQuery = sq.searchQuery
            ELSE out = sq)
  /\ [][node = "analyze" /\ steps' # steps =>
          /\ Len(subQueries') = Len(subQueries)
          /\ \A i \in 1..Len(subQueries) :
               \/ subQueries'[i] = subQueries[i]
               \/ /\ subQueries'[i].confidence > subQueries[i].confidence
                  /\ subQueries'[i].answered =
                       (subQueries'[i].confidence >= MIN_ANSWER_CONFIDENCE)
                  /\ subQueries'[i].answer # Undef
     ]_vars

\* a second coverage check has run and a sub-question still holds the
\* judgment of confidence 2 that it got earlier: no later judgment was
\* strictly better
C24_Witness ==
  /\ searchAttempt >= 2
  /\ \E i \in 1..Len(subQueries) :
       /\ subQueries[i].confidence = 2
       /\ ~subQueries[i].answered
       /\ subQueries[i].answer = "text"

\* C26: a negative or empty summary is never stored as a finding: no document
\* of the registry or of the scraped list carries a summary that says that
\* no specific information was found, on the search path and on the scraping
\* path alike.
C26_NoNegativeSummaryStored ==
  /\ \A i \in 1..Len(sources) : sources[i].summary # 2
  /\ \A i \in 1..Len(scrapedSources) : scrapedSources[i].summary # 2

\* C25: failures in non-critical helpers never reach the error state. A
\* failed summarization stores no fact; a failed or unparseable coverage
\* check leaves every sub-question as it was; a failed follow-up generation
\* gives the empty list; in each case the node goes on to its normal next
\* phase, and no error is recorded and no error event emitted for it. The
\* search and scrape nodes, which call the summarizer, never end in the
\* error phase.
C25_HelperFailuresAbsorbed ==
  /\ [](SearchSummary("empty") = 0 /\ ScrapeSummary("empty") = 0)
  /\ [][failedCall' = "checkAnswers" =>
          /\ subQueries' = subQueries
          /\ node' \in {"plan", "synthesize"}
          /\ phase' \in {"planning", "synthesizing"}
          /\ events' = events
          /\ error' = error /\ errorType' = errorType]_vars
  /\ [][failedCall' = "followUp" =>
          /\ followUpQuestions' = "empty"
          /\ finalAnswer' # Undef
          /\ node' = "complete"
          /\ phase' = "complete"
          /\ events' = events
          /\ error' = error /\ errorType' = errorType]_vars
  /\ [][(node = "search" \/ node = "scrape") /\ steps' # steps =>
          /\ phase' # "error"
          /\ node' # "handleError"
          /\ events' = events
          /\ error' = error
     ]_vars

\* the coverage check of a round with documents has just failed, and the run
\* goes on with the next planning round
C25_Witness ==
  /\ failedCall = "checkAnswers"
  /\ node = "plan"
  /\ Len(sources) > 0
  /\ error = Undef
  /\ events = <<>>

\* C27: decomposition fallback. When the decomposition call fails or its
\* output cannot be parsed, the plan step goes on with exactly one
\* sub-question whose question and search query are the user's request
\* verbatim, with answered = false and confidence 0; the run does not enter
\* the error state and the request is the one query planned.
C27_DecompositionFallback ==
  [][failedCall' = "extractSubQueries" =>
       /\ Len(subQueries') = 1
       /\ subQueries'[1].question = "request"
       /\ subQueries'[1].searchQuery = Query("request", 0)
       /\ ~subQueries'[1].answered
       /\ subQueries'[1].confidence = 0
       /\ hasSubQueries'
       /\ searchQueries' = <<Query("request", 0)>>
       /\ phase' = "searching"
       /\ node' = "search"
       /\ error' = error
       /\ events' = events]_vars

\* the plan node has just fallen back to the request as the only
\* sub-question, in a run without any earlier error
C27_Witness ==
  /\ failedCall = "extractSubQueries"
  /\ node = "search"
  /\ Len(subQueries) = 1
  /\ subQueries[1].question = "request"
  /\ error = Undef

\* C28: replanning output is capped: on every retry round (a plan step with
\* searchAttempt > 0 that plans queries) the list of alternative queries,
\* which is the list of queries searched in that round, has at most
\* MAX_SEARCH_QUERIES entries.
C28_ReplanCapped ==
  [][node = "plan" /\ steps' # steps /\ searchAttempt > 0
       /\ phase' = "searching" =>
         Len(searchQueries') <= MAX_SEARCH_QUERIES]_vars

\* C29: replanning only touches unanswered sub-questions. A plan step of a
\* retry round changes nothing but search queries: the number of
\* sub-questions, and the question, answered flag, confidence, answer text
\* and supporting URLs of each one stay as they are, and a sub-question that
\* is answered (answered and confidence >= MIN_ANSWER_CONFIDENCE) keeps its
\* search query too.
C29_ReplanFrame ==
  [][node = "plan" /\ steps' # steps /\ searchAttempt > 0 /\ hasSubQueries =>
       /\ Len(subQueries') = Len(subQueries)
       /\ \A i \in 1..Len(subQueries) :
            /\ subQueries'[i].question = subQueries[i].question
            /\ subQueries'[i].answered = subQueries[i].answered
            /\ subQueries'[i].confidence = subQueries[i].confidence
            /\ subQueries'[i].answer = subQueries[i].answer
            /\ subQueries'[i].sources = subQueries[i].sources
            /\ ~IsUnanswered(subQueries[i]) =>
                 subQueries'[i].searchQuery = subQueries[i].searchQuery
     ]_vars

\* a retry round has replanned while the first sub-question was answered:
\* it keeps its original query and the second one has an alternative
C29_Witness ==
  /\ node = "search"
  /\ searchAttempt = 1
  /\ Len(subQueries) >= 2
  /\ ~IsUnanswered(subQueries[1])
  /\ subQueries[1].searchQuery = Query("orig", 1)
  /\ subQueries[2].searchQuery.kind = "alt"

\* C30: version degradation applies to the specific sub-question. After a
\* plan step of a retry round with previousAttempts >= 2 that plans queries,
\* every unanswered sub-question whose text carries a version pattern has
\* the base query derived from itself as its search query, and no
\* sub-question has a base query derived from another sub-question.
C30_DegradesOwnQuery ==
  [][node = "plan" /\ steps' # steps /\ searchAttempt >= 2
       /\ phase' = "searching" =>
         \A i \in 1..Len(subQueries') :
           /\ (IsUnanswered(subQueries[i]) /\ subQueries[i].version) =>
                subQueries'[i].searchQuery = Query("base", i)
           /\ subQueries'[i].searchQuery.kind = "base" =>
                subQueries'[i].searchQuery.of = i]_vars

\* position of a node in the pipeline that buildGraph wires (lines 818-888)
NodeRank(n) ==
  CASE n = "understand" -> 1
    [] n = "plan" -> 2
    [] n = "search" -> 3
    [] n = "scrape" -> 4
    [] n = "analyze" -> 5
    [] n = "synthesize" -> 6
    [] n = "complete" -> 7
    [] n = "handleError" -> 8
    [] n = "END" -> 9

\* C31: phase order. The phases a run executes move forward only in the
\* order understanding, planning, searching, scraping, analyzing,
\* synthesizing, complete (the searching phase may repeat, once per planned
\* query), every phase may be followed by the error state, and the only
\* backward moves are the one from analyzing to planning, taken when the
\* coverage check asks for another round, and the one from the error state
\* to the start (understanding).
C31_PhaseOrder ==
  [][steps' # steps =>
       \/ node' = "handleError" /\ node \notin {"handleError", "complete"}
       \/ NodeRank(node') > NodeRank(node)
       \/ node = "search" /\ node' = "search"
       \/ node = "analyze" /\ node' = "plan" /\ phase' = "planning"
       \/ node = "handleError" /\ node' = "understand"]_vars

\* a run that took both backward edges is about to execute the complete
\* phase
C31_Witness ==
  node = "complete" /\ planRetries >= 1 /\ errorRetries >= 1

\* C32 (as claimed): the scraping phase always goes on to analyzing: a fetch
\* that times out or fails gives no error event and no error state, and the
\* document whose fetch failed is dropped from further processing: it is
\* not among the documents given to the coverage check, nor in the registry
\* that the analyze node writes back, from which the documents of the
\* synthesizer are taken and which the final-result event carries.
C32_FailedFetchDropped ==
  /\ [][node = "scrape" /\ steps' # steps =>
          /\ node' = "analyze"
          /\ phase' = "analyzing"
          /\ events' = events
          /\ error' = error]_vars
  /\ [](node = "analyze" =>
          fetchFailed \cap UrlsOf(AllSources(sources, scrapedSources)) = {})
  /\ [][node = "analyze" /\ steps' # steps =>
          fetchFailed \cap UrlsOf(sources') = {}]_vars

\* C33: streaming fallback. When the stream succeeds no non-streaming call
\* is made; when it fails, before or after delivering some chunks, exactly
\* one non-streaming call is made and, if that call succeeds, its whole text
\* is delivered as a single chunk after the chunks already delivered and is
\* the answer; the synthesizer throws only if that call fails too, and a
\* synthesize step ends in the error phase exactly in that case.
C33_StreamingFallback ==
  /\ [](\A s \in StreamOutcomes, f \in FallbackOutcomes :
          LET r == GenerateStreamingAnswer(s, f)
          IN IF s.ok
             THEN r.ok /\ r.fallbackCalls = 0 /\ r.chunks = s.chunks
             ELSE /\ r.fallbackCalls = 1
                  /\ r.ok = f
                  /\ f => (r.text = AnswerText
                           /\ r.chunks = s.chunks \o <<r.text>>)
                  /\ ~f => r.chunks = s.chunks)
  /\ [][node = "synthesize" /\ steps' # steps =>
          /\ (phase' = "error") <=> (failedCall' = "synthesize")
          /\ phase' \in {"error", "complete"}
          /\ phase' = "complete" =>
               \E s \in StreamOutcomes, f \in FallbackOutcomes :
                 LET r == GenerateStreamingAnswer(s, f)
                 IN /\ r.ok
                    /\ finalAnswer' = r.text
                    /\ streamed' = streamed \o Join(r.chunks)]_vars

\* the first synthesis of a run has succeeded through the fallback: the
\* stream failed after its first chunk and the whole answer followed as one
\* chunk
C33_Witness ==
  /\ world = "stream"
  /\ node = "complete"
  /\ retryCount = 0
  /\ finalAnswer = AnswerText
  /\ streamed = AnswerChunks[1] \o AnswerText

\* C34 (as claimed): the streamed chunks add up to the answer. For every
\* final-result event, the content-chunk events of the run, joined in
\* emission order, give the content of that event, also when the stream
\* failed part-way and when synthesis was retried after an error.
C34_ChunksAddUp ==
  \A i \in 1..Len(events) :
    events[i].type = "final-result" => streamed = events[i].data.content

\* the number of space-separated words of the query, each position of a
\* word counted, that occur in the content when case is ignored: a word is
\* the text between two neighbouring separators (a space, the start or the
\* end of the query)
Hits(content, query) ==
  LET n == Len(query)
      IsSep(i) == i = 0 \/ i = n + 1 \/ query[i] = " "
      words == {w \in (0..n) \X (1..(n + 1)) :
                  /\ w[1] < w[2] /\ IsSep(w[1]) /\ IsSep(w[2])
                  /\ \A i \in (w[1] + 1)..(w[2] - 1) : ~IsSep(i)}
      SameLetter(a, b) == ToLowerChar(a) = ToLowerChar(b)
      Occurs(w) ==
        \E p \in 0..Len(content) :
          \A k \in 1..(w[2] - w[1] - 1) :
            /\ p + k <= Len(content)
            /\ SameLetter(content[p + k], query[w[1] + k])
  IN Cardinality({w \in words : Occurs(w)})

\* C35: the relevance score is a pure function with result in [0, 1]. A
\* call returns min(1, 0.2 * h), h being the number of space-separated query
\* words (with multiplicity) that occur in the content when case is ignored
\* (scores are in tenths); it changes no state, and its result is determined
\* by its arguments.
C35_ScoreIsCappedHitCount ==
  /\ [](scoring.score # -1 =>
          /\ scoring.score = Min(10, 2 * Hits(scoring.content, scoring.query))
          /\ scoring.score \in 0..10
          /\ scoring.score = ScoreContent(scoring.content, scoring.query))
  /\ [][scoring' # scoring =>
          /\ scoring'.content = scoring.content
          /\ scoring'.query = scoring.query
          /\ UNCHANGED stateVars
          /\ events' = events]_vars

\* a call with a query of six words, one of them in another case than in
\* the content, has returned the capped score
C35_Witness ==
  /\ scoring.score = 10
  /\ scoring.content = <<"A">>
  /\ scoring.query[1] = "a"
  /\ Len(scoring.query) = MaxQueryLen

\* C36: the answered flag and the confidence are linked. In every reachable
\* state and for every sub-question, answered is true if and only if the
\* stored confidence is >= MIN_ANSWER_CONFIDENCE, so that the filter of the
\* plan node (not answered, or confidence below MIN_ANSWER_CONFIDENCE)
\* selects exactly the sub-questions with answered = false.
C36_AnsweredIffConfident ==
  \A i \in 1..Len(subQueries) :
    /\ subQueries[i].answered <=>
         (subQueries[i].confidence >= MIN_ANSWER_CONFIDENCE)
    /\ IsUnanswered(subQueries[i]) <=> ~subQueries[i].answered

\* after coverage checks one sub-question is answered and another one holds
\* a judgment below the threshold
C36_Witness ==
  /\ Len(subQueries) >= 2
  /\ subQueries[1].answered
  /\ subQueries[1].confidence >= MIN_ANSWER_CONFIDENCE
  /\ ~subQueries[2].answered
  /\ subQueries[2].confidence = 2

C38_ErrorKinds ==
  /\ [](\A i \in 1..Len(events) :
          events[i].type = "error" =>
            events[i].errorType \in {"llm", "unknown"})
  /\ [](node = "handleError" => errorType = "llm")
  /\ [][failedCall' = "search" =>
          errorType' = "search" /\ phase' # "error"
          /\ node' # "handleError"]_vars
  /\ [][Len(events') > Len(events)
          /\ events'[Len(events')].type = "error" =>
            IF node = "handleError" /\ steps' # steps
            THEN events'[Len(events')].errorType = "llm"
            ELSE /\ pc' = "done"
                 /\ events'[Len(events')].errorType = "unknown"]_vars

\* a run in which a query failed and the error state was entered twice,
\* the second time after a failed synthesis
C38_Witness ==
  /\ queryFailed
  /\ node = "handleError"
  /\ failedCall = "synthesize"
  /\ errorType = "llm"
  /\ HasError("llm")

\* what a restart out of the error state leaves alone: every field of the
\* state but retryCount and phase
RestartFrame ==
  [][node = "handleError" /\ node' = "understand" =>
       /\ retryCount' = retryCount + 1
       /\ phase' = "understanding"
       /\ subQueries' = subQueries
       /\ hasSubQueries' = hasSubQueries
       /\ sources' = sources
       /\ scrapedSources' = scrapedSources
       /\ searchAttempt' = searchAttempt
       /\ UNCHANGED <<understanding, searchQueries, currentSearchIndex,
                      finalAnswer, followUpQuestions, error, errorType,
                      maxRetries>>]_vars

\* searchAttempt grows by exactly 1 per coverage check and changes in no
\* other step
AttemptCountsChecks ==
  [][IF node = "analyze" /\ steps' # steps /\ hasSubQueries
     THEN searchAttempt' = searchAttempt + 1
     ELSE searchAttempt' = searchAttempt]_vars

\* C39 (as claimed): an error-driven restart keeps the research progress.
\* The transition from the error state back into the pipeline changes only
\* retryCount and phase; consequently the decomposition into sub-questions
\* is made at most once per run, and searchAttempt, which grows by exactly
\* 1 per coverage check, never decreases.
C39_RestartKeepsProgress ==
  /\ RestartFrame
  /\ AttemptCountsChecks
  /\ [](decompositions <= 1)

\* C39 (amended): the same with the decomposition clause restricted to
\* what the frame gives. A list of sub-questions, once stored, is never made
\* anew (no later step decomposes, and the questions stay as they are); the
\* decomposition is repeated only while no list is stored, that is after a
\* plan step that failed on its result, once per restart at most.
C39_StoredDecompositionKept ==
  /\ RestartFrame
  /\ AttemptCountsChecks
  /\ [][hasSubQueries =>
          /\ hasSubQueries'
          /\ decompositions' = decompositions
          /\ Len(subQueries') = Len(subQueries)
          /\ \A i \in 1..Len(subQueries) :
               subQueries'[i].question = subQueries[i].question]_vars
  /\ [](decompositions <= retryCount + 1)

\* a restarted run is back at its start with the sub-questions of its one
\* decomposition, a judgment, its documents and its round counter
C39_Witness ==
  /\ node = "understand"
  /\ retryCount >= 1
  /\ decompositions = 1
  /\ hasSubQueries
  /\ searchAttempt >= 1
  /\ Len(sources) > 0
  /\ \E i \in 1..Len(subQueries) : subQueries[i].confidence > 0

\* C40: a run executes at most 35 graph steps. A run whose phases would need
\* more (the graph has not ended when the budget is used up) is cut off
\* after its 35th step, whatever retryCount is: it ends with one more event,
\* the error event of kind unknown of search(), the only one of that kind,
\* and it has no final-result event; no run is cut off earlier.
C40_StepBudget ==
  /\ [](steps <= RECURSION_LIMIT)
  /\ [][pc = "invoke" /\ pc' = "done" /\ node # "END" =>
          /\ steps = RECURSION_LIMIT
          /\ Len(events') = Len(events) + 1
          /\ events'[Len(events')].type = "error"
          /\ events'[Len(events')].errorType = "unknown"
          /\ ~HasError("unknown")
          /\ \A i \in 1..Len(events') : events'[i].type # "final-result"
     ]_vars
  /\ [][pc = "invoke" /\ pc' = "done" /\ steps < RECURSION_LIMIT =>
          node = "END" /\ events' = events]_vars

\* a run without any error restart was cut off before its complete phase,
\* with the answer already synthesized
C40_Witness ==
  /\ pc = "done"
  /\ steps = RECURSION_LIMIT
  /\ node = "complete"
  /\ finalAnswer # Undef
  /\ retryCount < maxRetries
  /\ HasError("unknown")
  /\ ~HasFinal

====
